---- MODULE Spec2Model ----
(***************************************************************************)
(* DashCraft.py as a state machine: one CLI invocation of main() walks the *)
(* statements of main in order; the filesystem (directories and files with *)
(* their contents) and the YAML file persist from one invocation to the    *)
(* next.                                                                   *)
(***************************************************************************)
EXTENDS Integers, Sequences, FiniteSets, TLC

VARIABLES
    pc,         \* the statement of main() about to run, or how main ended
    run,        \* number of the current invocation of the program
    yamlFile,   \* what the YAML file on disk holds (never written by the program)
    choice,     \* the menu answer of this invocation
    config,     \* the value load_yaml returned in this invocation
    outputDir,  \* output_dir / target_dir of this invocation
    i,          \* position of the for loop over config["components"]
    dirs,       \* the directories that exist on disk
    files,      \* the files on disk: path -> content
    err,        \* the exception that ended this invocation, if any
    printed,    \* the success message of line 262 was printed in this invocation
    steps,      \* history: the statements of lines 255-261 executed in this invocation
    dirs0,      \* history: dirs when this invocation started
    files0,     \* history: files when this invocation started
    lastOk      \* history: the output_dir of the previous invocation if it completed

vars == <<pc, run, yamlFile, choice, config, outputDir, i, dirs, files, err,
          printed, steps, dirs0, files0, lastOk>>

----------------------------------------------------------------------------
(* Bounds *)

MaxComponents == 2

MaxRuns == 2

----------------------------------------------------------------------------
(* Values *)

Absent == "<absent>"

NoError == "<none>"

NotAsked == "<not asked>"

Ids == {"chart", "table"}

Titles == {"Sales"}

Modes == {"dark"}

PrimaryColors == {"#000000"}

SecondaryColors == {"#ffffff"}

\* Answers to the output directory prompt: empty (the default applies) or the
\* default path typed out.
DirInputs == {"", "./output"}

\* Answers to the purge prompt: a generated project root, or a path that never exists.
PurgeInputs == {"./output", "./gone"}

\* A component mapping: the id key may be missing; title stands for
\* options.title (Absent: no options key, or options without a title).
Components == [id : Ids \cup {Absent}, title : Titles \cup {Absent}]

\* RECURSIVE helper: all sequences over S of length at most n.
RECURSIVE SeqsUpTo(_, _)
SeqsUpTo(S, n) ==
    IF n = 0 THEN {<<>>}
    ELSE LET shorter == SeqsUpTo(S, n - 1)
         IN shorter \cup {Append(s, x) : s \in {t \in shorter : Len(t) = n - 1}, x \in S}

\* The theme key of the document: absent, null (`theme:` with no value) or a mapping.
Themes ==
    [kind : {"map"}, mode : Modes \cup {Absent},
     primaryColor : PrimaryColors \cup {Absent},
     secondaryColor : SecondaryColors \cup {Absent}]
    \cup {[kind |-> k, mode |-> Absent, primaryColor |-> Absent, secondaryColor |-> Absent] :
            k \in {"absent", "null"}}

\* What yaml.safe_load can return for the documents considered: a mapping
\* with optional keys components and theme.
Documents ==
    [isNone : {FALSE}, hasComponents : {TRUE},
     components : SeqsUpTo(Components, MaxComponents), theme : Themes]
    \cup [isNone : {FALSE}, hasComponents : {FALSE}, components : {<<>>}, theme : Themes]

NoneValue ==
    [isNone |-> TRUE, hasComponents |-> FALSE, components |-> <<>>,
     theme |-> [kind |-> "absent", mode |-> Absent, primaryColor |-> Absent,
                secondaryColor |-> Absent]]

\* The YAML file: unreadable or unparsable, or holding one of the documents.
YamlFiles == [readable : {TRUE}, doc : Documents] \cup {[readable |-> FALSE, doc |-> NoneValue]}

----------------------------------------------------------------------------
(* Paths and the filesystem *)

Join(base, rel) == base \o rel

Dirname(p) == SubSeq(p, 1, Len(p) - 1)

Prefixes(p) == {SubSeq(p, 1, k) : k \in 1..Len(p)}

Under(root, p) == Len(p) >= 1 /\ p[1] = root

PROJECT_STRUCTURE ==
    << [folder |-> "public", subfolders |-> <<>>],
       [folder |-> "src",
        subfolders |-> <<"components", "layouts", "pages", "services", "themes",
                         "utils", "mockData">>] >>

ExistOkFalse == FALSE

ExistOk == TRUE

\* os.makedirs(p, exist_ok=ExistOk): the error it raises on the directories d, if any
MakedirsErr(d, p) == IF p \in d /\ ~ExistOk THEN "FileExistsError" ELSE NoError

\* os.makedirs(p): p and every missing ancestor are created
MakedirsDirs(d, p) == d \cup Prefixes(p)

\* create_project_structure: the os.makedirs calls it makes, in order
FolderCalls(base, item) ==
    <<Join(base, <<item.folder>>)>> \o
    [k \in 1..Len(item.subfolders) |-> Join(base, <<item.folder, item.subfolders[k]>>)]

RECURSIVE StructureCalls(_, _)
StructureCalls(base, structure) ==
    IF Len(structure) = 0 THEN <<>>
    ELSE FolderCalls(base, Head(structure)) \o StructureCalls(base, Tail(structure))

RECURSIVE MakeAll(_, _, _)
MakeAll(d, calls, k) ==
    IF k > Len(calls) THEN [dirs |-> d, err |-> NoError]
    ELSE IF MakedirsErr(d, calls[k]) # NoError
         THEN [dirs |-> d, err |-> MakedirsErr(d, calls[k])]
         ELSE MakeAll(MakedirsDirs(d, calls[k]), calls, k + 1)

\* ioOk = FALSE: the operating system refuses the first makedirs (permission, disk)
CreateProjectStructure(d, f, base_dir, structure, ioOk) ==
    IF ~ioOk THEN [dirs |-> d, files |-> f, err |-> "OSError"]
    ELSE LET r == MakeAll(d, StructureCalls(<<base_dir>>, structure), 1)
         IN [dirs |-> r.dirs, files |-> f, err |-> r.err]

WriteModeAppend(old, new) == old \o new

\* open(path, "w") then write(content): the file holds content alone
WriteMode(old, new) == new

Put(f, p, content) ==
    [q \in (DOMAIN f) \cup {p} |->
        IF q = p THEN WriteMode(IF p \in DOMAIN f THEN f[p] ELSE <<>>, content)
        ELSE f[q]]

\* The tail of every generator: optional makedirs of the parent, open "w", write.
WriteFile(d, f, path, content, mkParent, ioOk) ==
    IF mkParent /\ MakedirsErr(d, Dirname(path)) # NoError
    THEN [dirs |-> d, files |-> f, err |-> MakedirsErr(d, Dirname(path))]
    ELSE LET d1 == IF mkParent THEN MakedirsDirs(d, Dirname(path)) ELSE d
         IN IF Dirname(path) \notin d1
            THEN [dirs |-> d1, files |-> f, err |-> "FileNotFoundError"]
            ELSE IF ~ioOk
                 THEN [dirs |-> d1, files |-> f, err |-> "OSError"]
                 ELSE [dirs |-> d1, files |-> Put(f, path, content), err |-> NoError]

----------------------------------------------------------------------------
(* Templates and generators *)

Lit(s) == [ph |-> FALSE, s |-> s]

Ph(k) == [ph |-> TRUE, s |-> k]

\* str.format: every placeholder is replaced by the field of its name
Format(template, fields) ==
    [k \in DOMAIN template |->
        IF template[k].ph THEN fields[template[k].s] ELSE template[k].s]

ComponentTemplate ==
    << Lit("import React; const "), Ph("name"), Lit(" = () => <div><h1>"), Ph("title"),
       Lit("</h1></div>; export default "), Ph("name") >>

ThemeTemplate ==
    << Lit("createTheme palette mode: "), Ph("mode"), Lit(" primary main: "),
       Ph("primaryColor"), Lit(" secondary main: "), Ph("secondaryColor"),
       Lit(" export default theme") >>

IndexContent == <<"ReactDOM.render(<App />, root)">>

AppContent == <<"function App: ThemeProvider theme from ./themes/theme">>

PackageContent == <<"dashcraft-app 1.0.0 dependencies scripts">>

\* str.capitalize on the ids considered
Capitalize(id) == CASE id = "chart" -> "Chart" [] id = "table" -> "Table"

\* f"{id}.js" on the ids considered
JsName(id) == CASE id = "chart" -> "chart.js" [] id = "table" -> "table.js"

\* dict.get(key, default)
Get(value, default) == IF value = Absent THEN default ELSE value

ComponentPathByName(output_dir, id) == <<output_dir, "src", "components", Capitalize(id)>>

ComponentPath(output_dir, id) == <<output_dir, "src", "components", JsName(id)>>

ThemePath(output_dir) == <<output_dir, "src", "themes", "theme.js">>

IndexPath(output_dir) == <<output_dir, "src", "index.js">>

AppPath(output_dir) == <<output_dir, "src", "App.js">>

PackagePath(output_dir) == <<output_dir, "package.json">>

ComponentContent(component) ==
    Format(ComponentTemplate,
           [name |-> Capitalize(component.id), title |-> Get(component.title, "Component")])

GenerateComponent(d, f, component, output_dir, ioOk) ==
    IF component.id = Absent
    THEN [dirs |-> d, files |-> f, err |-> "KeyError"]
    ELSE WriteFile(d, f, ComponentPath(output_dir, component.id),
                   ComponentContent(component), TRUE, ioOk)

ThemeContent(theme) ==
    Format(ThemeTemplate,
           [mode |-> Get(theme.mode, "light"),
            primaryColor |-> Get(theme.primaryColor, "#1976d2"),
            secondaryColor |-> Get(theme.secondaryColor, "#ff4081")])

\* theme is config.get("theme", {}): None when the key is present with no value
GenerateTheme(d, f, theme, output_dir, ioOk) ==
    IF theme.kind = "null"
    THEN [dirs |-> d, files |-> f, err |-> "AttributeError"]
    ELSE WriteFile(d, f, ThemePath(output_dir), ThemeContent(theme), TRUE, ioOk)

GenerateIndexJs(d, f, output_dir, ioOk) ==
    WriteFile(d, f, IndexPath(output_dir), IndexContent, TRUE, ioOk)

GenerateAppJs(d, f, output_dir, ioOk) ==
    WriteFile(d, f, AppPath(output_dir), AppContent, TRUE, ioOk)

GeneratePackageJson(d, f, output_dir, ioOk) ==
    WriteFile(d, f, PackagePath(output_dir), PackageContent, FALSE, ioOk)

\* load_yaml: None on a read or parse error, else the parsed document
LoadYaml(file) == IF file.readable THEN file.doc ELSE NoneValue

FalsyOnlyNone(c) == c.isNone

\* `not config`: None, or a mapping with no key
Falsy(c) == c.isNone \/ (~c.hasComponents /\ c.theme.kind = "absent")

----------------------------------------------------------------------------
(* main() *)

MainOrderIndexFirst ==
    <<"index", "structure", "app", "package", "components", "theme", "success">>

\* The statements of main's create branch, lines 255-262, in program order
MainOrder == <<"structure", "index", "app", "package", "components", "theme", "success">>

Generators == {"index", "app", "package", "components", "theme"}

NextStep(step) ==
    MainOrder[(CHOOSE k \in 1..Len(MainOrder) : MainOrder[k] = step) + 1]

AfterStatementSwallow(next, e) == next

\* main has no try/except: an exception leaves main, otherwise the next statement runs
AfterStatement(next, e) == IF e = NoError THEN next ELSE "failed"

Terminal == {"done", "failed", "returned", "exited"}

NoFiles == [p \in {} |-> <<>>]

Init ==
    /\ pc = "start"
    /\ run = 1
    /\ yamlFile \in YamlFiles
    /\ choice = ""
    /\ config = NoneValue
    /\ outputDir = NotAsked
    /\ i = 1
    /\ dirs = {}
    /\ files = NoFiles
    /\ err = NoError
    /\ printed = FALSE
    /\ steps = <<>>
    /\ dirs0 = {}
    /\ files0 = NoFiles
    /\ lastOk = NotAsked

\* Line 243: check_and_resolve_dependencies; it ends the process with
\* sys.exit(1) when a package is missing and is not installed.
CheckDependencies ==
    /\ pc = "start"
    /\ \E satisfied \in BOOLEAN :
          pc' = IF satisfied THEN "menu" ELSE "exited"
    /\ UNCHANGED <<run, yamlFile, choice, config, outputDir, i, dirs, files, err,
                   printed, steps, dirs0, files0, lastOk>>

\* Lines 244-249, 263, 266-267: the menu
Choose ==
    /\ pc = "menu"
    /\ \E c \in {"1", "2", "3"} :
          /\ choice' = c
          /\ pc' = CASE c = "1" -> "load" [] c = "2" -> "purge" [] OTHER -> "exited"
    /\ UNCHANGED <<run, yamlFile, config, outputDir, i, dirs, files, err,
                   printed, steps, dirs0, files0, lastOk>>

\* Lines 250-253
LoadConfig ==
    /\ pc = "load"
    /\ config' = LoadYaml(yamlFile)
    /\ pc' = IF Falsy(config') THEN "returned" ELSE "askdir"
    /\ UNCHANGED <<run, yamlFile, choice, outputDir, i, dirs, files, err,
                   printed, steps, dirs0, files0, lastOk>>

\* Line 254
AskOutputDir ==
    /\ pc = "askdir"
    /\ \E answer \in DirInputs :
          outputDir' = IF answer = "" THEN "./output" ELSE answer
    /\ pc' = MainOrder[1]
    /\ UNCHANGED <<run, yamlFile, choice, config, i, dirs, files, err,
                   printed, steps, dirs0, files0, lastOk>>

\* A statement of lines 255-261 ran with outcome r; next is where success leads.
Ran(step, r, next) ==
    /\ dirs' = r.dirs
    /\ files' = r.files
    /\ err' = r.err
    /\ steps' = Append(steps, step)
    /\ pc' = AfterStatement(next, r.err)
    /\ UNCHANGED <<run, yamlFile, choice, config, outputDir, printed, dirs0, files0, lastOk>>

\* Line 255
Structure ==
    /\ pc = "structure"
    /\ \E ioOk \in BOOLEAN :
          Ran("structure",
              CreateProjectStructure(dirs, files, outputDir, PROJECT_STRUCTURE, ioOk),
              NextStep("structure"))
    /\ UNCHANGED i

\* Line 256
IndexJs ==
    /\ pc = "index"
    /\ \E ioOk \in BOOLEAN :
          Ran("index", GenerateIndexJs(dirs, files, outputDir, ioOk), NextStep("index"))
    /\ UNCHANGED i

\* Line 257
AppJs ==
    /\ pc = "app"
    /\ \E ioOk \in BOOLEAN :
          Ran("app", GenerateAppJs(dirs, files, outputDir, ioOk), NextStep("app"))
    /\ UNCHANGED i

\* Line 258
PackageJson ==
    /\ pc = "package"
    /\ \E ioOk \in BOOLEAN :
          Ran("package", GeneratePackageJson(dirs, files, outputDir, ioOk),
              NextStep("package"))
    /\ UNCHANGED i

\* Lines 259-260: one iteration of the for loop
ComponentIteration ==
    /\ pc = "components"
    /\ i <= Len(config.components)
    /\ \E ioOk \in BOOLEAN :
          Ran("components",
              GenerateComponent(dirs, files, config.components[i], outputDir, ioOk),
              "components")
    /\ i' = i + 1

\* Line 259: the for loop is exhausted
ComponentsExhausted ==
    /\ pc = "components"
    /\ i > Len(config.components)
    /\ pc' = NextStep("components")
    /\ UNCHANGED <<run, yamlFile, choice, config, outputDir, i, dirs, files, err,
                   printed, steps, dirs0, files0, lastOk>>

\* Line 261
Theme ==
    /\ pc = "theme"
    /\ \E ioOk \in BOOLEAN :
          Ran("theme", GenerateTheme(dirs, files, config.theme, outputDir, ioOk),
              NextStep("theme"))
    /\ UNCHANGED i

\* Line 262
Success ==
    /\ pc = "success"
    /\ printed' = TRUE
    /\ pc' = "done"
    /\ UNCHANGED <<run, yamlFile, choice, config, outputDir, i, dirs, files, err,
                   steps, dirs0, files0, lastOk>>

\* Lines 264-265: purge_dashboard is defined nowhere in the program, so the
\* call raises NameError once target_dir has been read.
Purge ==
    /\ pc = "purge"
    /\ \E target \in PurgeInputs : outputDir' = target
    /\ err' = "NameError"
    /\ pc' = "failed"
    /\ UNCHANGED <<run, yamlFile, choice, config, i, dirs, files,
                   printed, steps, dirs0, files0, lastOk>>

\* The process has ended; the user starts the program again (lines 269-270).
Invoke ==
    /\ pc \in Terminal
    /\ run < MaxRuns
    /\ run' = run + 1
    /\ pc' = "start"
    /\ choice' = ""
    /\ config' = NoneValue
    /\ outputDir' = NotAsked
    /\ i' = 1
    /\ err' = NoError
    /\ printed' = FALSE
    /\ steps' = <<>>
    /\ dirs0' = dirs
    /\ files0' = files
    /\ lastOk' = IF pc = "done" THEN outputDir ELSE NotAsked
    /\ UNCHANGED <<yamlFile, dirs, files>>

Next ==
    \/ CheckDependencies
    \/ Choose
    \/ LoadConfig
    \/ AskOutputDir
    \/ Structure
    \/ IndexJs
    \/ AppJs
    \/ PackageJson
    \/ ComponentIteration
    \/ ComponentsExhausted
    \/ Theme
    \/ Success
    \/ Purge
    \/ Invoke

Spec == Init /\ [][Next]_vars

----------------------------------------------------------------------------
(* Properties *)

Range(seq) == {seq[k] : k \in DOMAIN seq}

IdsOf(components) == {components[k].id : k \in DOMAIN components}

DistinctIds(components) ==
    /\ Absent \notin IdsOf(components)
    /\ \A j, k \in DOMAIN components : j # k => components[j].id # components[k].id

DuplicateIds(components) ==
    \E j, k \in DOMAIN components :
        j # k /\ components[j].id # Absent /\ components[j].id = components[k].id

FilesUnder(f, root) == {p \in DOMAIN f : Under(root, p)}

DirsUnder(d, root) == {p \in d : Under(root, p)}

\* The fixed tree of the specification: public, src and src's seven subdirectories
StructureDirs(root) ==
    { <<root, "public">>, <<root, "src">> } \cup
    { <<root, "src", sub>> :
        sub \in {"components", "layouts", "pages", "services", "themes", "utils", "mockData"} }

FixedFiles(root) ==
    { <<root, "src", "index.js">>, <<root, "src", "App.js">>,
      <<root, "src", "themes", "theme.js">>, <<root, "package.json">> }

ComponentFiles(f, root) ==
    {p \in DOMAIN f : Dirname(p) = <<root, "src", "components">>}

\* C1: a completed run on an empty output root, for a configuration with N
\* pairwise distinct ids, leaves exactly the four fixed files and N files
\* under src/components, one named <id>.js per id.
C1_OneFilePerId ==
    (pc = "done" /\ FilesUnder(files0, outputDir) = {} /\ DirsUnder(dirs0, outputDir) = {}
        /\ DistinctIds(config.components))
    => /\ FilesUnder(files, outputDir) =
            FixedFiles(outputDir) \cup
            {<<outputDir, "src", "components", JsName(id)>> : id \in IdsOf(config.components)}
       /\ Cardinality(ComponentFiles(files, outputDir)) = Len(config.components)

C1_Witness ==
    /\ pc = "done"
    /\ FilesUnder(files0, outputDir) = {}
    /\ DistinctIds(config.components)
    /\ Len(config.components) = 2
    /\ Cardinality(ComponentFiles(files, outputDir)) = 2

\* C2: a run whose configuration holds two components with the same id ends
\* in a conflict error; it never completes successfully.
C2_DuplicateIdsNeverComplete ==
    DuplicateIds(config.components) => pc # "done"

\* C3: whenever a generator has run in this invocation, the structure step ran
\* first and the whole fixed tree exists; no file changes before that.
C3_StructureBeforeGenerators ==
    /\ \A k \in DOMAIN steps :
          steps[k] \in Generators =>
             /\ k > 1
             /\ steps[1] = "structure"
             /\ StructureDirs(outputDir) \subseteq dirs
    /\ files # files0 => (steps # <<>> /\ steps[1] = "structure")

C3_Witness ==
    /\ pc = "success"
    /\ Generators \subseteq Range(steps)
    /\ steps[1] = "structure"

\* C4: a completed run that follows a completed run on the same output root
\* (same YAML file) leaves the tree as the first run left it: same
\* directories, same files, same contents.
C4_SecondRunChangesNothing ==
    (pc = "done" /\ lastOk = outputDir) => (dirs = dirs0 /\ files = files0)

C4_Witness ==
    /\ pc = "done"
    /\ lastOk = outputDir
    /\ Len(config.components) = 2
    /\ config.theme.kind = "map"

\* C5: purge on a path that does not exist ends in an error (never in silent
\* success); purge on an existing generated root ends without error, with
\* nothing left under the root and the root itself absent.
C5_PurgeSafety ==
    (choice = "2" /\ pc \in Terminal)
    => IF <<outputDir>> \in dirs0
       THEN /\ err = NoError
            /\ DirsUnder(dirs, outputDir) = {}
            /\ FilesUnder(files, outputDir) = {}
       ELSE err # NoError

ExpectedTheme(theme) ==
    << "createTheme palette mode: ",
       IF theme.mode = Absent THEN "light" ELSE theme.mode,
       " primary main: ",
       IF theme.primaryColor = Absent THEN "#1976d2" ELSE theme.primaryColor,
       " secondary main: ",
       IF theme.secondaryColor = Absent THEN "#ff4081" ELSE theme.secondaryColor,
       " export default theme" >>

\* C6: unless the operating system refuses the write, theme generation
\* succeeds for every theme value of the configuration and writes
\* src/themes/theme.js with each field at its configured value or its default.
C6_ThemeAlwaysSucceeds ==
    (steps # <<>> /\ steps[Len(steps)] = "theme" /\ err # "OSError")
    => /\ err = NoError
       /\ ThemePath(outputDir) \in DOMAIN files
       /\ files[ThemePath(outputDir)] = ExpectedTheme(config.theme)

\* C7: a run that fails because a component lacks its id has changed nothing
\* on disk: no directory created, no file written.
C7_ConfigErrorBeforeMutation ==
    err = "KeyError" => (dirs = dirs0 /\ files = files0)

\* C8: create_project_structure never fails because a directory exists; when
\* the operating system does not refuse it, the whole fixed tree exists
\* afterwards; it only adds directories of the tree and touches no file.
C8_StructureIdempotent ==
    [][pc = "structure" =>
          /\ err' \in {NoError, "OSError"}
          /\ err' = NoError => StructureDirs(outputDir) \subseteq dirs'
          /\ dirs \subseteq dirs'
          /\ dirs' \ dirs \subseteq StructureDirs(outputDir) \cup {<<outputDir>>}
          /\ files' = files]_vars

C8_Witness ==
    /\ steps = <<"structure">>
    /\ err = NoError
    /\ files0 # NoFiles
    /\ ThemePath(outputDir) \notin DOMAIN files0
    /\ StructureDirs(outputDir) \subseteq dirs0

\* C9: a failing step ends the run as failed: the success message is never
\* printed, no later step runs (the only thing that follows is a new
\* invocation), and everything on disk before the failure is still there,
\* unchanged.
C9_FailureAbortsNoRollback ==
    [][/\ err' # NoError => (pc' = "failed" /\ ~printed')
       /\ pc' = "failed" =>
            /\ dirs \subseteq dirs'
            /\ \A p \in DOMAIN files : p \in DOMAIN files' /\ files'[p] = files[p]
       /\ pc = "failed" =>
            /\ pc' = "start" /\ run' = run + 1
            /\ dirs' = dirs /\ files' = files]_vars

C9_Witness ==
    /\ pc = "failed"
    /\ steps # <<>>
    /\ steps[Len(steps)] \in Generators
    /\ FilesUnder(files, outputDir) # FilesUnder(files0, outputDir)
    /\ ~printed

\* The YAML file gives no usable configuration: load_yaml returns None, or
\* the document is an empty mapping.
NoUsableConfig ==
    \/ ~yamlFile.readable
    \/ yamlFile.doc.isNone
    \/ (~yamlFile.doc.hasComponents /\ yamlFile.doc.theme.kind = "absent")

\* C10: once loading has yielded no usable configuration, the create choice
\* has returned: nothing on disk changed, no step ran and the output
\* directory was never asked for.
C10_NoConfigNoEffect ==
    (choice = "1" /\ pc # "load" /\ NoUsableConfig)
    => /\ pc = "returned"
       /\ dirs = dirs0 /\ files = files0
       /\ steps = <<>>
       /\ outputDir = NotAsked

C10_Witness ==
    /\ pc = "returned"
    /\ yamlFile.readable
    /\ choice = "1"

====
